---- MODULE Spec2Model ----
(***************************************************************************)
(* State-machine model of contracts/CrisisChatFHE.sol.                     *)
(*                                                                         *)
(* Every state-changing entry point of the contract is one action; a view  *)
(* function is an operator on the current state.  A call that reverts is   *)
(* rolled back by the EVM and leaves no trace in the state: for every      *)
(* entry point an ...Outcome operator gives the revert reason (or OK) of a  *)
(* call made in the current state, and the action is the call that passes  *)
(* every require.  lastCall is the last call that was executed.            *)
(* The fhevm library (FHE.gt, FHE.requestDecryption, FHE.checkSignatures)  *)
(* is not part of the                                                      *)
(* repository: requestDecryption is modelled as a per-contract counter     *)
(* that also records the requested handles and the callback selector,      *)
(* checkSignatures as a check of a proof that verifies only for the        *)
(* handles of the request and the one cleartext the KMS decrypts them to.  *)
(* resolved is a history variable:                                         *)
(* the (handler, requestId) pairs of the callbacks that ran to their       *)
(* completion event.                                                       *)
(* The callback payloads are ABI-encoded byte strings and are decoded the  *)
(* way abi.decode does.                                                    *)
(***************************************************************************)
EXTENDS Naturals, Sequences, FiniteSets

VARIABLES messageCount, encryptedMessages, decryptedAlerts,
          encryptedThreshold, thresholdSet, requestToMessageId, counselor,
          counterRequest, decryptionRequests, blockTimestamp, lastCall, resolved

storage == <<messageCount, encryptedMessages, decryptedAlerts,
             encryptedThreshold, thresholdSet, requestToMessageId, counselor>>
oracle  == <<counterRequest, decryptionRequests>>
vars    == <<messageCount, encryptedMessages, decryptedAlerts,
             encryptedThreshold, thresholdSet, requestToMessageId, counselor,
             counterRequest, decryptionRequests, blockTimestamp, lastCall,
             resolved>>

----------------------------------------------------------------------------
(* Bounds of the model *)

MaxMessages == 2
MaxRequests == 3

MessageIds == 0..MaxMessages
RequestIds == 0..(MaxRequests - 1)

(* Accounts: the deployer and one other account. *)
Deployer == "deployer"
Stranger == "stranger"
Addresses == {Deployer, Stranger}
(* Marks calls of functions that never read msg.sender. *)
AnySender == "any"

(* block.timestamp of a call is one of two times and never earlier than *)
(* that of the call before: two calls may be mined in the same block.   *)
Timestamps == {1, 2}
BlockTimes(last) == {t \in Timestamps : t >= last}

(* euint32 handles; 0 is the uninitialised handle.  The contract takes any  *)
(* handle it is given: the counselor picks the threshold among two          *)
(* ciphertexts, a submission carries any of the content and score handles,  *)
(* the uninitialised one and handles used before included.                  *)
ThresholdHandles == {1, 2}
ContentHandles == {0, 1}
ScoreHandles == {0, 2}

----------------------------------------------------------------------------
(* ABI encoding of callback payloads, byte by byte *)

Zeros(n) == [i \in 1..n |-> 0]

(* abi.encode of a value below 256 as one 32-byte word *)
EncodeWord(v) == Zeros(31) \o <<v>>

EncodeBool(b) == EncodeWord(IF b THEN 1 ELSE 0)

PadLen(n) == (((n + 31) \div 32) * 32) - n

(* abi.encode(string): offset word, length word, data padded to 32 bytes *)
EncodeString(s) == EncodeWord(32) \o EncodeWord(Len(s)) \o s \o Zeros(PadLen(Len(s)))

(* Any word that does not fit two bytes; larger than every payload length. *)
LargeWord == 256 * 256

(* The 32-byte big-endian word at byte offset off (mload). *)
WordAt(data, off) ==
    IF \A i \in 1..30 : data[off + i] = 0
    THEN data[off + 31] * 256 + data[off + 32]
    ELSE LargeWord

(* abi.decode(cleartexts, (bool)) *)
DecodeBool(data) ==
    IF Len(data) < 32 THEN [ok |-> FALSE, value |-> FALSE]
    ELSE IF WordAt(data, 0) \notin {0, 1} THEN [ok |-> FALSE, value |-> FALSE]
    ELSE [ok |-> TRUE, value |-> (WordAt(data, 0) = 1)]

(* abi.decode(cleartexts, (string)) *)
DecodeString(data) ==
    IF Len(data) < 32 THEN [ok |-> FALSE, value |-> <<>>]
    ELSE LET offset == WordAt(data, 0) IN
         IF ~(offset + 31 < Len(data)) THEN [ok |-> FALSE, value |-> <<>>]
         ELSE LET length == WordAt(data, offset)
                  src == offset + 32 IN
              IF src + length > Len(data) THEN [ok |-> FALSE, value |-> <<>>]
              ELSE [ok |-> TRUE, value |-> SubSeq(data, src + 1, src + length)]

(* Strings as byte sequences *)
EmptyString == <<>>
StringA == <<65>>

(* The payloads a callback may carry: abi.encode(false), which is also   *)
(* abi.encode(uint32(0)), abi.encode(true) and abi.encode("A").          *)
FalsePayload == EncodeBool(FALSE)
TruePayload == EncodeBool(TRUE)
StringPayload == EncodeString(StringA)
Cleartexts == {FalsePayload, TruePayload, StringPayload}

(* A proof either is the KMS signature over the handles of the request   *)
(* and the cleartexts the KMS decrypted them to, or it is not.           *)
ValidProof == "valid"
ForgedProof == "forged"
Proofs == {ValidProof, ForgedProof}

----------------------------------------------------------------------------
(* Outcomes of a call *)

OK == "ok"
Unauthorized == "Unauthorized"
ThresholdAlreadySet == "Threshold already set"
UnknownRequest == "Invalid request"
NotHighRisk == "Not high risk"
AlreadyRevealed == "Already decrypted"
InvalidProof == "InvalidKMSSignatures"
MalformedPayload == "abi.decode reverted"
(* The error the specification names for a submission without a threshold; *)
(* no require of the contract raises it.                                   *)
ThresholdNotSet == "Threshold not set"

Call(op, sender, arg) == [op |-> op, sender |-> sender, arg |-> arg]

----------------------------------------------------------------------------
(* Storage defaults *)

NoMessage == [id |-> 0, encryptedContent |-> 0, encryptedRiskScore |-> 0,
              timestamp |-> 0, isHighRisk |-> FALSE]
NoAlert == [content |-> EmptyString, riskScore |-> 0, isDecrypted |-> FALSE]

(* A decryption request the oracle has not been asked for *)
NoRequest == [ciphertexts |-> <<>>, selector |-> "none"]

(* constructor *)
Init ==
    /\ messageCount = 0
    /\ encryptedMessages = [i \in MessageIds |-> NoMessage]
    /\ decryptedAlerts = [i \in MessageIds |-> NoAlert]
    /\ encryptedThreshold = 0
    /\ thresholdSet = FALSE
    /\ requestToMessageId = [r \in RequestIds |-> 0]
    /\ counselor = Deployer
    /\ counterRequest = 0
    /\ decryptionRequests = [r \in RequestIds |-> NoRequest]
    /\ blockTimestamp = 1
    /\ resolved = {}
    /\ lastCall = Call("constructor", Deployer, 0)

onlyCounselor_anyone(sender) == TRUE

(* modifier onlyCounselor *)
onlyCounselor(sender) == sender = counselor

----------------------------------------------------------------------------
(* fhevm library *)

(* Handle of FHE.gt(a, b); an uninitialised operand is replaced by a *)
(* trivial encryption of 0.  Distinct operands give distinct handles, *)
(* none of them a handle a caller passes in.                          *)
FHEgt(a, b) == 1000 + 10 * a + b
IsGtHandle(h) == h >= 1000

(* The plaintext of an ebool handle FHE.gt(a, b) returned: a euint32       *)
(* handle stands for the encryption of its own number, the uninitialised   *)
(* handle for 0.                                                           *)
DecryptedBool(h) == ((h - 1000) \div 10) > ((h - 1000) % 10)

(* The cleartexts the KMS returns for a content handle.  The content is a  *)
(* euint32: its cleartexts are the one 32-byte word abi.encode(uint32(v)), *)
(* v the plaintext (the number of the handle, 0 for the uninitialised      *)
(* one).                                                                   *)
DecryptedContent(h) == EncodeWord(h)

(* The cleartexts the KMS signs for the handles of a request: one          *)
(* cleartext per ciphertext.                                               *)
KMSCleartexts(ciphertexts) ==
    IF ciphertexts = <<>> THEN <<>>
    ELSE IF IsGtHandle(ciphertexts[1])
         THEN (IF DecryptedBool(ciphertexts[1]) THEN TruePayload ELSE FalsePayload)
    ELSE DecryptedContent(ciphertexts[1])

checkSignatures_anyCleartexts(requestId, cleartexts, proof) ==
    /\ decryptionRequests[requestId] # NoRequest
    /\ proof = ValidProof

(* FHE.checkSignatures(requestId, cleartexts, proof) does not revert *)
checkSignatures(requestId, cleartexts, proof) ==
    /\ decryptionRequests[requestId] # NoRequest
    /\ proof = ValidProof
    /\ cleartexts = KMSCleartexts(decryptionRequests[requestId].ciphertexts)

(* FHE.requestDecryption(ciphertexts, selector): returns the counter as the *)
(* request id, stores the handles and advances the counter.                 *)
requestDecryption(ciphertexts, selector) ==
    /\ counterRequest < MaxRequests
    /\ decryptionRequests' = [decryptionRequests EXCEPT ![counterRequest] =
                                  [ciphertexts |-> ciphertexts, selector |-> selector]]
    /\ counterRequest' = counterRequest + 1

----------------------------------------------------------------------------
(* The contract *)

ThresholdUnset_always == TRUE

(* require(!thresholdSet, "Threshold already set") *)
ThresholdUnset == ~thresholdSet

setEncryptedThresholdOutcome(sender, _encryptedThreshold) ==
    IF ~onlyCounselor(sender) THEN Unauthorized
    ELSE IF ~ThresholdUnset THEN ThresholdAlreadySet
    ELSE OK

setEncryptedThreshold_claiming(sender, _encryptedThreshold) ==
    /\ ThresholdUnset
    /\ encryptedThreshold' = _encryptedThreshold
    /\ thresholdSet' = TRUE
    /\ counselor' = sender
    /\ lastCall' = Call("setEncryptedThreshold", sender, _encryptedThreshold)
    /\ UNCHANGED <<messageCount, encryptedMessages, decryptedAlerts,
                   requestToMessageId, oracle, resolved>>

setEncryptedThreshold_unreverted(sender, _encryptedThreshold) ==
    /\ encryptedThreshold' = _encryptedThreshold
    /\ thresholdSet' = TRUE
    /\ lastCall' = Call("setEncryptedThreshold", sender, _encryptedThreshold)
    /\ UNCHANGED <<messageCount, encryptedMessages, decryptedAlerts,
                   requestToMessageId, counselor, oracle, resolved>>

(* A call that reverts is rolled back whole: the step is the call that     *)
(* passes every require.                                                   *)
setEncryptedThreshold(sender, _encryptedThreshold) ==
    /\ setEncryptedThresholdOutcome(sender, _encryptedThreshold) = OK
    /\ encryptedThreshold' = _encryptedThreshold
    /\ thresholdSet' = TRUE
    /\ lastCall' = Call("setEncryptedThreshold", sender, _encryptedThreshold)
    /\ UNCHANGED <<messageCount, encryptedMessages, decryptedAlerts,
                   requestToMessageId, counselor, oracle, resolved>>

NextMessageCount_skipping(count) == count + 2

NextMessageCount_reusing(count) == IF count = 0 THEN 1 ELSE count

(* messageCount += 1 *)
NextMessageCount(count) == count + 1

(* The EncryptedMessage stored by submitEncryptedMessage *)
NewMessage(newId, encryptedContent, encryptedRiskScore, now) ==
    [id |-> newId, encryptedContent |-> encryptedContent,
     encryptedRiskScore |-> encryptedRiskScore, timestamp |-> now,
     isHighRisk |-> FALSE]

NewAlert_filled == [content |-> StringA, riskScore |-> 0, isDecrypted |-> FALSE]

(* The DecryptedAlert stored by submitEncryptedMessage *)
NewAlert == [content |-> EmptyString, riskScore |-> 0, isDecrypted |-> FALSE]

_assessRisk_unbound(messageId, encryptedRiskScore) ==
    /\ requestDecryption(<<FHEgt(encryptedRiskScore, encryptedThreshold)>>,
                         "handleRiskAssessment")
    /\ UNCHANGED requestToMessageId

(* _assessRisk(messageId), reading the message as submit has just stored it *)
_assessRisk(messageId, encryptedRiskScore) ==
    /\ requestDecryption(<<FHEgt(encryptedRiskScore, encryptedThreshold)>>,
                         "handleRiskAssessment")
    /\ requestToMessageId' = [requestToMessageId EXCEPT ![counterRequest] = messageId]

(* submitEncryptedMessage has no require: it never reverts *)
submitEncryptedMessageOutcome == OK

submitEncryptedMessage(encryptedContent, encryptedRiskScore, now) ==
    /\ submitEncryptedMessageOutcome = OK
    /\ messageCount < MaxMessages
    /\ LET newId == NextMessageCount(messageCount) IN
       /\ newId \in MessageIds
       /\ messageCount' = newId
       /\ encryptedMessages' = [encryptedMessages EXCEPT ![newId] =
              NewMessage(newId, encryptedContent, encryptedRiskScore, now)]
       /\ decryptedAlerts' = [decryptedAlerts EXCEPT ![newId] = NewAlert]
       /\ _assessRisk(newId, encryptedRiskScore)
       /\ lastCall' = Call("submitEncryptedMessage", AnySender, newId)
    /\ blockTimestamp' = now
    /\ UNCHANGED <<encryptedThreshold, thresholdSet, counselor, resolved>>

MarkHighRisk_all(messages, messageId, isHighRisk) ==
    [m \in DOMAIN messages |-> [messages[m] EXCEPT !.isHighRisk = isHighRisk]]

(* encryptedMessages[messageId].isHighRisk = isHighRisk *)
MarkHighRisk(messages, messageId, isHighRisk) ==
    [messages EXCEPT ![messageId].isHighRisk = isHighRisk]

handleRiskAssessmentOutcome_nolookup(requestId, cleartexts, proof) ==
    IF ~checkSignatures(requestId, cleartexts, proof) THEN InvalidProof
    ELSE IF ~DecodeBool(cleartexts).ok THEN MalformedPayload
    ELSE OK

(* The requires of handleRiskAssessment in the order of the code *)
handleRiskAssessmentOutcome(requestId, cleartexts, proof) ==
    IF requestToMessageId[requestId] = 0 THEN UnknownRequest
    ELSE IF ~checkSignatures(requestId, cleartexts, proof) THEN InvalidProof
    ELSE IF ~DecodeBool(cleartexts).ok THEN MalformedPayload
    ELSE OK

handleRiskAssessment_clearing(requestId, cleartexts, proof) ==
    /\ handleRiskAssessmentOutcome(requestId, cleartexts, proof) = OK
    /\ LET messageId == requestToMessageId[requestId]
           isHighRisk == DecodeBool(cleartexts).value IN
       encryptedMessages' = [encryptedMessages EXCEPT ![messageId] =
                                 [NoMessage EXCEPT !.isHighRisk = isHighRisk]]
    /\ lastCall' = Call("handleRiskAssessment", AnySender, requestId)
    /\ resolved' = resolved \cup {<<"handleRiskAssessment", requestId>>}
    /\ UNCHANGED <<messageCount, decryptedAlerts, encryptedThreshold,
                   thresholdSet, requestToMessageId, counselor, oracle>>

(* handleRiskAssessment: the call that passes every require writes the     *)
(* decoded flag into the record the request is bound to                    *)
handleRiskAssessment(requestId, cleartexts, proof) ==
    /\ handleRiskAssessmentOutcome(requestId, cleartexts, proof) = OK
    /\ LET messageId == requestToMessageId[requestId]
           isHighRisk == DecodeBool(cleartexts).value IN
       encryptedMessages' = MarkHighRisk(encryptedMessages, messageId, isHighRisk)
    /\ lastCall' = Call("handleRiskAssessment", AnySender, requestId)
    /\ resolved' = resolved \cup {<<"handleRiskAssessment", requestId>>}
    /\ UNCHANGED <<messageCount, decryptedAlerts, encryptedThreshold,
                   thresholdSet, requestToMessageId, counselor, oracle>>

IsHighRisk_unchecked(messageId) == TRUE

(* message.isHighRisk, as both require(message.isHighRisk, ...) read it *)
IsHighRisk(messageId) == encryptedMessages[messageId].isHighRisk

requestAlertDecryptionOutcome_unguarded(sender, messageId) ==
    IF ~onlyCounselor(sender) THEN Unauthorized
    ELSE OK

(* The modifier and the requires of requestAlertDecryption in the order of *)
(* the code                                                                *)
requestAlertDecryptionOutcome(sender, messageId) ==
    IF ~onlyCounselor(sender) THEN Unauthorized
    ELSE IF ~IsHighRisk(messageId) THEN NotHighRisk
    ELSE IF decryptedAlerts[messageId].isDecrypted THEN AlreadyRevealed
    ELSE OK

requestAlertDecryption(sender, messageId) ==
    /\ requestAlertDecryptionOutcome(sender, messageId) = OK
    /\ requestDecryption(<<encryptedMessages[messageId].encryptedContent>>,
                         "handleAlertDecryption")
    /\ requestToMessageId' = [requestToMessageId EXCEPT ![counterRequest] = messageId]
    /\ lastCall' = Call("requestAlertDecryption", sender, messageId)
    /\ UNCHANGED <<messageCount, encryptedMessages, decryptedAlerts,
                   encryptedThreshold, thresholdSet, counselor, resolved>>

(* The DecryptedAlert stored by handleAlertDecryption *)
RevealedAlert(content) == [content |-> content, riskScore |-> 0, isDecrypted |-> TRUE]

handleAlertDecryptionOutcome(requestId, cleartexts, proof) ==
    IF requestToMessageId[requestId] = 0 THEN UnknownRequest
    ELSE IF ~IsHighRisk(requestToMessageId[requestId]) THEN NotHighRisk
    ELSE IF ~checkSignatures(requestId, cleartexts, proof) THEN InvalidProof
    ELSE IF ~DecodeString(cleartexts).ok THEN MalformedPayload
    ELSE OK

handleAlertDecryption(requestId, cleartexts, proof) ==
    /\ handleAlertDecryptionOutcome(requestId, cleartexts, proof) = OK
    /\ LET messageId == requestToMessageId[requestId]
           content == DecodeString(cleartexts).value IN
       decryptedAlerts' = [decryptedAlerts EXCEPT ![messageId] = RevealedAlert(content)]
    /\ lastCall' = Call("handleAlertDecryption", AnySender, requestId)
    /\ resolved' = resolved \cup {<<"handleAlertDecryption", requestId>>}
    /\ UNCHANGED <<messageCount, encryptedMessages, encryptedThreshold,
                   thresholdSet, requestToMessageId, counselor, oracle>>

(* What a view call hands back to its caller *)
Returned(alert) ==
    [status |-> OK, content |-> alert.content, isDecrypted |-> alert.isDecrypted]

Reverted(reason) ==
    [status |-> reason, content |-> EmptyString, isDecrypted |-> FALSE]

(* getDecryptedAlert is a view function: its result in the current state *)
getDecryptedAlert(sender, messageId) ==
    IF ~onlyCounselor(sender)
    THEN Reverted(Unauthorized)
    ELSE Returned(decryptedAlerts[messageId])

(* The getter Solidity generates for the public mapping decryptedAlerts: *)
(* a view function without any modifier                                   *)
decryptedAlertsGetter(sender, messageId) ==
    Returned(decryptedAlerts[messageId])

----------------------------------------------------------------------------
CallSetEncryptedThreshold ==
    /\ \E sender \in Addresses, h \in ThresholdHandles : setEncryptedThreshold(sender, h)
    /\ UNCHANGED blockTimestamp

CallSubmitEncryptedMessage ==
    \E encryptedContent \in ContentHandles, encryptedRiskScore \in ScoreHandles,
       now \in BlockTimes(blockTimestamp) :
        submitEncryptedMessage(encryptedContent, encryptedRiskScore, now)

CallHandleRiskAssessment ==
    /\ \E r \in RequestIds, c \in Cleartexts, p \in Proofs : handleRiskAssessment(r, c, p)
    /\ UNCHANGED blockTimestamp

CallRequestAlertDecryption ==
    /\ \E sender \in Addresses, m \in MessageIds : requestAlertDecryption(sender, m)
    /\ UNCHANGED blockTimestamp

CallHandleAlertDecryption ==
    /\ \E r \in RequestIds, c \in Cleartexts, p \in Proofs : handleAlertDecryption(r, c, p)
    /\ UNCHANGED blockTimestamp

Next ==
    \/ CallSetEncryptedThreshold
    \/ CallSubmitEncryptedMessage
    \/ CallHandleRiskAssessment
    \/ CallRequestAlertDecryption
    \/ CallHandleAlertDecryption

Spec == Init /\ [][Next]_vars

----------------------------------------------------------------------------
(* A misbehaving oracle client: FHE.requestDecryption may return an        *)
(* identifier it has already issued.  The contract takes whatever          *)
(* identifier the library returns (lines 89-90).                           *)

requestDecryptionReissued(reqId, ciphertexts, selector) ==
    /\ reqId < counterRequest
    /\ decryptionRequests' = [decryptionRequests EXCEPT ![reqId] =
                                  [ciphertexts |-> ciphertexts, selector |-> selector]]
    /\ UNCHANGED counterRequest

_assessRiskReissued(reqId, messageId, encryptedRiskScore) ==
    /\ requestDecryptionReissued(reqId,
                                 <<FHEgt(encryptedRiskScore, encryptedThreshold)>>,
                                 "handleRiskAssessment")
    /\ requestToMessageId' = [requestToMessageId EXCEPT ![reqId] = messageId]

submitEncryptedMessageReissued(reqId, encryptedContent, encryptedRiskScore, now) ==
    /\ messageCount < MaxMessages
    /\ LET newId == NextMessageCount(messageCount) IN
       /\ newId \in MessageIds
       /\ messageCount' = newId
       /\ encryptedMessages' = [encryptedMessages EXCEPT ![newId] =
              NewMessage(newId, encryptedContent, encryptedRiskScore, now)]
       /\ decryptedAlerts' = [decryptedAlerts EXCEPT ![newId] = NewAlert]
       /\ _assessRiskReissued(reqId, newId, encryptedRiskScore)
       /\ lastCall' = Call("submitEncryptedMessage", AnySender, newId)
    /\ blockTimestamp' = now
    /\ UNCHANGED <<encryptedThreshold, thresholdSet, counselor, resolved>>

CallSubmitEncryptedMessageReissued ==
    \E reqId \in RequestIds, encryptedContent \in ContentHandles,
       encryptedRiskScore \in ScoreHandles, now \in BlockTimes(blockTimestamp) :
        submitEncryptedMessageReissued(reqId, encryptedContent, encryptedRiskScore, now)

NextReissuingOracle ==
    \/ CallSetEncryptedThreshold
    \/ CallSubmitEncryptedMessage
    \/ CallSubmitEncryptedMessageReissued
    \/ CallHandleRiskAssessment
    \/ CallRequestAlertDecryption
    \/ CallHandleAlertDecryption

SpecReissuingOracle == Init /\ [][NextReissuingOracle]_vars

----------------------------------------------------------------------------
(* The two callbacks as functions of the store they run on, for comparing  *)
(* the orders in which two callbacks are delivered.  A store is the        *)
(* records and the alerts; the callbacks write nothing else.  A call that  *)
(* reverts leaves the store as it was.                                     *)

Store == [messages |-> encryptedMessages, alerts |-> decryptedAlerts]

(* The callback the oracle delivers for a request: the request's selector  *)
(* names the handler.                                                      *)
CallbackOf(requestId, cleartexts) ==
    [handler |-> decryptionRequests[requestId].selector,
     requestId |-> requestId, cleartexts |-> cleartexts, proof |-> ValidProof]

(* The requires of handleRiskAssessment (lines 101-105); none reads a record *)
RiskCallbackOutcome(st, cb) ==
    handleRiskAssessmentOutcome(cb.requestId, cb.cleartexts, cb.proof)

(* The requires of handleAlertDecryption, message.isHighRisk read from st *)
AlertCallbackOutcome(st, cb) ==
    IF requestToMessageId[cb.requestId] = 0 THEN UnknownRequest
    ELSE IF ~st.messages[requestToMessageId[cb.requestId]].isHighRisk THEN NotHighRisk
    ELSE IF ~checkSignatures(cb.requestId, cb.cleartexts, cb.proof) THEN InvalidProof
    ELSE IF ~DecodeString(cb.cleartexts).ok THEN MalformedPayload
    ELSE OK

CallbackOutcome(st, cb) ==
    IF cb.handler = "handleRiskAssessment" THEN RiskCallbackOutcome(st, cb)
    ELSE AlertCallbackOutcome(st, cb)

(* The store after the callback cb has been called on st *)
Deliver(st, cb) ==
    LET messageId == requestToMessageId[cb.requestId] IN
    IF CallbackOutcome(st, cb) # OK THEN st
    ELSE IF cb.handler = "handleRiskAssessment"
         THEN [st EXCEPT !.messages =
                   MarkHighRisk(st.messages, messageId, DecodeBool(cb.cleartexts).value)]
         ELSE [st EXCEPT !.alerts =
                   [st.alerts EXCEPT ![messageId] =
                        RevealedAlert(DecodeString(cb.cleartexts).value)]]

(* The registered requests for which no callback has been accepted yet *)
Pending ==
    {r \in RequestIds : /\ requestToMessageId[r] # 0
                        /\ <<decryptionRequests[r].selector, r>> \notin resolved}

(* The oracle answers a pending request: it calls the handler the request   *)
(* names with the cleartexts of the requested handles and their proof.      *)
OracleDelivers(r) ==
    /\ r \in Pending
    /\ LET ct == KMSCleartexts(decryptionRequests[r].ciphertexts) IN
           IF decryptionRequests[r].selector = "handleRiskAssessment"
           THEN handleRiskAssessment(r, ct, ValidProof)
           ELSE handleAlertDecryption(r, ct, ValidProof)
    /\ UNCHANGED blockTimestamp

(* A fair oracle: a pending request whose callback is acceptable again and  *)
(* again is eventually answered.                                            *)
FairOracle == \A r \in RequestIds : SF_vars(OracleDelivers(r))

FairSpec == Spec /\ FairOracle

----------------------------------------------------------------------------
(* Vocabulary of the properties *)

Others == Addresses \ {counselor}
Allocated == 1..messageCount
IsRiskRequest(r) == decryptionRequests[r].selector = "handleRiskAssessment"
IsRevealRequest(r) == decryptionRequests[r].selector = "handleAlertDecryption"
(* The cleartexts the valid proof of request r verifies with *)
SignedCleartexts(r) == KMSCleartexts(decryptionRequests[r].ciphertexts)
(* A risk callback has been accepted for message m *)
Evaluated(m) ==
    \E r \in RequestIds : /\ <<"handleRiskAssessment", r>> \in resolved
                          /\ requestToMessageId[r] = m
NothingReturned(result) ==
    result.content = EmptyString /\ result.isDecrypted = FALSE

----------------------------------------------------------------------------
(* C1: once a handleRiskAssessment callback has been accepted for a request *)
(* identifier that submit issued, every later handleRiskAssessment call     *)
(* with that identifier fails with UnknownRequest (and so changes nothing). *)
C1_AtMostOnceRiskResolution ==
    \A r \in RequestIds :
        (IsRiskRequest(r) /\ <<"handleRiskAssessment", r>> \in resolved) =>
            \A c \in Cleartexts, p \in Proofs :
                handleRiskAssessmentOutcome(r, c, p) = UnknownRequest

(* C2: once the alert of a record is revealed, every further               *)
(* handleAlertDecryption callback that targets that record, whatever its    *)
(* request identifier, fails with AlreadyRevealed or UnknownRequest, so the *)
(* alert's content stays as it is.                                          *)
C2_AlertWrittenOnce ==
    \A r \in RequestIds, c \in Cleartexts, p \in Proofs :
        (/\ requestToMessageId[r] # 0
         /\ decryptedAlerts[requestToMessageId[r]].isDecrypted) =>
            handleAlertDecryptionOutcome(r, c, p) \in {AlreadyRevealed, UnknownRequest}

(* C3: a submitEncryptedMessage call made while no threshold is set fails   *)
(* with ThresholdNotSet and creates no record, no alert and no pending      *)
(* request and does not advance the identifier counter.                     *)
C3_SubmitNeedsThreshold ==
    [][(~thresholdSet /\ CallSubmitEncryptedMessage) =>
           /\ submitEncryptedMessageOutcome = ThresholdNotSet
           /\ UNCHANGED <<messageCount, encryptedMessages, decryptedAlerts,
                          requestToMessageId>>]_vars

(* C4: a callback whose proof does not verify fails with InvalidProof and  *)
(* a later callback with the same request identifier and a valid proof is  *)
(* still accepted.  Stated for the registered requests, each delivered to  *)
(* the handler it was issued for: the forged proof is refused with         *)
(* InvalidProof whatever the cleartexts, and the valid proof with the      *)
(* signed cleartexts is accepted.  (A refused call is no step: it changes  *)
(* neither record, alert nor ledger.)                                      *)
C4_ForgedProofIsInvalidProof ==
    \A r \in RequestIds :
        /\ IsRiskRequest(r) =>
               /\ \A c \in Cleartexts :
                      handleRiskAssessmentOutcome(r, c, ForgedProof) = InvalidProof
               /\ handleRiskAssessmentOutcome(r, SignedCleartexts(r), ValidProof) = OK
        /\ IsRevealRequest(r) =>
               /\ \A c \in Cleartexts :
                      handleAlertDecryptionOutcome(r, c, ForgedProof) = InvalidProof
               /\ handleAlertDecryptionOutcome(r, SignedCleartexts(r), ValidProof) = OK

(* C5: for every caller other than the counselor and every record           *)
(* identifier, requestAlertDecryption and getDecryptedAlert fail with       *)
(* Unauthorized, and every content-reveal request the oracle holds was      *)
(* registered by a call of the counselor.                                   *)
C5_PrivilegedOnly ==
    /\ [](\A s \in Others, m \in MessageIds :
              /\ requestAlertDecryptionOutcome(s, m) = Unauthorized
              /\ getDecryptedAlert(s, m).status = Unauthorized)
    /\ [][\A r \in RequestIds :
              (~IsRevealRequest(r) /\ decryptionRequests'[r].selector = "handleAlertDecryption")
                  => lastCall' = Call("requestAlertDecryption", counselor,
                                      requestToMessageId'[r])]_vars

(* a high-risk, unrevealed record: the counselor's request would pass and   *)
(* the same request by another caller is refused                            *)
C5_Witness ==
    \E m \in Allocated, s \in Others :
        /\ encryptedMessages[m].isHighRisk
        /\ requestAlertDecryptionOutcome(counselor, m) = OK
        /\ requestAlertDecryptionOutcome(s, m) = Unauthorized
        /\ getDecryptedAlert(s, m).status = Unauthorized

(* C6: no view function of the contract hands an alert's content or its     *)
(* revealed flag to a caller other than the counselor.                      *)
C6_ContentOnlyForCounselor ==
    \A s \in Others, m \in MessageIds :
        /\ NothingReturned(getDecryptedAlert(s, m))
        /\ NothingReturned(decryptedAlertsGetter(s, m))

(* C7 as claimed: requestAlertDecryption on a record whose flag was never   *)
(* set fails with NotHighRisk for every caller.                             *)
C7_NotHighRiskForEveryCaller ==
    \A s \in Addresses, m \in Allocated :
        ~Evaluated(m) => requestAlertDecryptionOutcome(s, m) = NotHighRisk

(* C7 as amended: a record no risk callback was accepted for is not         *)
(* high-risk, and requestAlertDecryption on a record that is not high-risk  *)
(* fails for every caller and registers no request: with NotHighRisk for    *)
(* the counselor, with Unauthorized for any other caller.                   *)
C7_NotHighRiskRefused ==
    \A m \in MessageIds :
        /\ ~Evaluated(m) => ~encryptedMessages[m].isHighRisk
        /\ ~encryptedMessages[m].isHighRisk =>
               \A s \in Addresses :
                   requestAlertDecryptionOutcome(s, m) =
                       (IF s = counselor THEN NotHighRisk ELSE Unauthorized)

(* a submitted record still under evaluation, refused to both callers *)
C7_Witness ==
    \E m \in Allocated, s \in Others :
        /\ ~Evaluated(m)
        /\ requestAlertDecryptionOutcome(counselor, m) = NotHighRisk
        /\ requestAlertDecryptionOutcome(s, m) = Unauthorized

(* C8: an alert whose isDecrypted flag is false has empty content, so       *)
(* getDecryptedAlert by the counselor returns ("", false) for it, whatever  *)
(* the record's risk state.                                                 *)
C8_UnrevealedIsEmpty ==
    \A m \in MessageIds :
        ~decryptedAlerts[m].isDecrypted =>
            /\ decryptedAlerts[m].content = EmptyString
            /\ getDecryptedAlert(counselor, m) =
                   [status |-> OK, content |-> EmptyString, isDecrypted |-> FALSE]

(* a high-risk record with a reveal request issued and not yet resolved *)
C8_Witness ==
    \E m \in Allocated, r \in RequestIds :
        /\ encryptedMessages[m].isHighRisk
        /\ ~decryptedAlerts[m].isDecrypted
        /\ IsRevealRequest(r) /\ requestToMessageId[r] = m
        /\ <<"handleAlertDecryption", r>> \notin resolved

(* C9: the identifiers in use are exactly 1..messageCount, and every        *)
(* submitEncryptedMessage advances the counter by exactly 1 and assigns the *)
(* new counter value, never 0 and never an identifier already in use.       *)
C9_IdentifiersSequential ==
    /\ [](\A m \in MessageIds :
              encryptedMessages[m].id = (IF m \in Allocated THEN m ELSE 0))
    /\ [][CallSubmitEncryptedMessage =>
              /\ messageCount' = messageCount + 1
              /\ lastCall'.arg = messageCount'
              /\ lastCall'.arg # 0
              /\ encryptedMessages[lastCall'.arg] = NoMessage
              /\ encryptedMessages'[lastCall'.arg].id = lastCall'.arg]_vars

(* the second submission has just received identifier 2 *)
C9_Witness ==
    /\ lastCall = Call("submitEncryptedMessage", AnySender, 2)
    /\ messageCount = 2
    /\ encryptedMessages[1].id = 1 /\ encryptedMessages[2].id = 2

(* C10: setEncryptedThreshold fails with Unauthorized for every caller but  *)
(* the counselor and fails once a threshold is set; the threshold changes   *)
(* only in a call of the counselor made while it is unset, and once set it  *)
(* keeps its value.                                                         *)
C10_ThresholdSetOnce ==
    /\ [](\A s \in Addresses, h \in ThresholdHandles :
              /\ s # counselor => setEncryptedThresholdOutcome(s, h) = Unauthorized
              /\ thresholdSet => setEncryptedThresholdOutcome(s, h) # OK)
    /\ [][/\ thresholdSet =>
                 (thresholdSet' /\ encryptedThreshold' = encryptedThreshold)
          /\ <<encryptedThreshold, thresholdSet>>' # <<encryptedThreshold, thresholdSet>> =>
                 /\ lastCall'.op = "setEncryptedThreshold"
                 /\ lastCall'.sender = counselor
                 /\ encryptedThreshold' = lastCall'.arg]_vars

(* a threshold was set, submissions followed, and a second call with the    *)
(* other ciphertext is refused                                              *)
C10_Witness ==
    /\ thresholdSet
    /\ messageCount > 0
    /\ \E h \in ThresholdHandles :
           /\ h # encryptedThreshold
           /\ setEncryptedThresholdOutcome(counselor, h) = ThresholdAlreadySet


(* C11: Scenario A.  With the threshold set, a submission into the empty   *)
(* store gets identifier 1; a valid handleRiskAssessment callback carrying  *)
(* true for a request bound to a record makes that record high-risk; for a  *)
(* high-risk, unrevealed record requestAlertDecryption by the counselor     *)
(* passes and registers a new content-reveal request bound to the record;   *)
(* the valid handleAlertDecryption callback for a content-reveal request    *)
(* bound to a high-risk record (the valid proof with the cleartexts of the  *)
(* record's content) is accepted, and an accepted one makes                 *)
(* getDecryptedAlert by the counselor return (its content, true).  (The     *)
(* risk callback step is stated by its contrapositive: a step that ends    *)
(* otherwise is not such a callback.)                                       *)
C11_ScenarioA ==
    /\ [](\A m \in Allocated :
              (encryptedMessages[m].isHighRisk /\ ~decryptedAlerts[m].isDecrypted)
                  => requestAlertDecryptionOutcome(counselor, m) = OK)
    /\ [](\A r \in RequestIds :
              (IsRevealRequest(r) /\ encryptedMessages[requestToMessageId[r]].isHighRisk)
                  => handleAlertDecryptionOutcome(r, SignedCleartexts(r), ValidProof) = OK)
    /\ [][LET c == lastCall'
               m == requestToMessageId[c.arg] IN
          /\ (thresholdSet /\ messageCount = 0 /\ c.op = "submitEncryptedMessage")
                 => (c.arg = 1 /\ messageCount' = 1)
          /\ (c.op = "handleRiskAssessment" /\ ~encryptedMessages'[m].isHighRisk)
                 => ~handleRiskAssessment(c.arg, TruePayload, ValidProof)
          /\ (c.op = "requestAlertDecryption" /\ c.sender = counselor)
                 => /\ counterRequest' = counterRequest + 1
                    /\ requestToMessageId'[counterRequest] = c.arg
                    /\ decryptionRequests'[counterRequest] =
                           [ciphertexts |-> <<encryptedMessages[c.arg].encryptedContent>>,
                            selector |-> "handleAlertDecryption"]
          /\ c.op = "handleAlertDecryption"
                 => \E id \in Allocated :
                        id = m /\ (getDecryptedAlert(counselor, id))' =
                            [status |-> OK,
                             content |-> DecodeString(SignedCleartexts(c.arg)).value,
                             isDecrypted |-> TRUE]]_vars

(* The risk flag of m has been written by an accepted callback and is false *)
LowRisk(m) == Evaluated(m) /\ ~encryptedMessages[m].isHighRisk
(* The content-reveal requests registered for message m *)
RevealRequestsOf(m) ==
    {r \in RequestIds : IsRevealRequest(r) /\ requestToMessageId[r] = m}

(* C12: LowRisk is terminal.  Once a risk callback carrying false has been  *)
(* accepted for a record, the record stays low-risk in every later state:   *)
(* requestAlertDecryption by the counselor fails with NotHighRisk, no       *)
(* content-reveal request is registered for the record, and its alert stays *)
(* unrevealed with empty content.                                           *)
C12_LowRiskTerminal ==
    [][\A m \in Allocated :
           LowRisk(m) =>
               /\ LowRisk(m)'
               /\ (requestAlertDecryptionOutcome(counselor, m))' = NotHighRisk
               /\ RevealRequestsOf(m)' = RevealRequestsOf(m)
               /\ decryptedAlerts'[m] = decryptedAlerts[m]]_vars

(* C13: requestAlertDecryption passes only while no content-reveal request  *)
(* has been registered for the record: once one is registered, pending or   *)
(* resolved, the call fails with AlreadyRevealed, so a record has at most   *)
(* one content-reveal request.                                              *)
C13_OneRevealRequest ==
    \A m \in Allocated :
        /\ RevealRequestsOf(m) # {}
               => requestAlertDecryptionOutcome(counselor, m) = AlreadyRevealed
        /\ Cardinality(RevealRequestsOf(m)) <= 1

(* C14: a call that fails (Unauthorized, NotHighRisk, AlreadyRevealed,      *)
(* UnknownRequest, InvalidProof, MalformedPayload) leaves the whole state   *)
(* unchanged.  Stated on the steps: every step that changes the state is a  *)
(* call whose checks on the state (sender, flags, request registered) all   *)
(* pass in the state before, a callback step is one whose request's signed  *)
(* cleartexts pass there with the valid proof, and it writes what these     *)
(* cleartexts decode to.                                                    *)
C14_FailedCallsChangeNothing ==
    [][LET c == lastCall' IN
       /\ c.op = "setEncryptedThreshold"
              => setEncryptedThresholdOutcome(c.sender, c.arg) = OK
       /\ c.op = "requestAlertDecryption"
              => requestAlertDecryptionOutcome(c.sender, c.arg) = OK
       /\ c.op = "handleRiskAssessment"
              => /\ handleRiskAssessmentOutcome(c.arg, SignedCleartexts(c.arg), ValidProof) = OK
                 /\ encryptedMessages' =
                        MarkHighRisk(encryptedMessages, requestToMessageId[c.arg],
                                     DecodeBool(SignedCleartexts(c.arg)).value)
       /\ c.op = "handleAlertDecryption"
              => /\ handleAlertDecryptionOutcome(c.arg, SignedCleartexts(c.arg), ValidProof) = OK
                 /\ decryptedAlerts'[requestToMessageId[c.arg]] =
                        RevealedAlert(DecodeString(SignedCleartexts(c.arg)).value)
       /\ c.op \in {"setEncryptedThreshold", "submitEncryptedMessage",
                    "requestAlertDecryption", "handleRiskAssessment",
                    "handleAlertDecryption"}]_vars

(* a state in which calls fail for each of the reasons: the threshold is    *)
(* set, record 1 is revealed, record 2 does not exist, request 0 is         *)
(* registered and some request identifier was never issued                  *)
C14_Witness ==
    /\ setEncryptedThresholdOutcome(counselor, 1) = ThresholdAlreadySet
    /\ requestAlertDecryptionOutcome(Stranger, 1) = Unauthorized
    /\ requestAlertDecryptionOutcome(counselor, 1) = AlreadyRevealed
    /\ requestAlertDecryptionOutcome(counselor, 2) = NotHighRisk
    /\ handleRiskAssessmentOutcome(0, EncodeBool(TRUE), ForgedProof) = InvalidProof
    /\ \E r \in RequestIds :
           handleAlertDecryptionOutcome(r, SignedCleartexts(r), ValidProof) = MalformedPayload
    /\ \E r \in RequestIds :
           handleAlertDecryptionOutcome(r, EncodeString(StringA), ValidProof) = UnknownRequest

(* C15: the revealed flag of an alert is monotonic: no step takes an alert  *)
(* with isDecrypted = true to isDecrypted = false.                          *)
C15_RevealedMonotonic ==
    [][\A m \in MessageIds :
           decryptedAlerts[m].isDecrypted => decryptedAlerts'[m].isDecrypted]_vars

(* an alert is revealed and calls that write records and alerts have been   *)
(* executed since: a risk callback was accepted after a later submission    *)
C15_Witness ==
    /\ decryptedAlerts[1].isDecrypted
    /\ messageCount = 2
    /\ lastCall.op = "handleRiskAssessment"
    /\ \E r \in RevealRequestsOf(1) : <<"handleAlertDecryption", r>> \in resolved

(* C16: reveal is confined to high-risk records: handleAlertDecryption for  *)
(* a registered request whose record is not high-risk fails with            *)
(* NotHighRisk, and in every reachable state a revealed alert belongs to a  *)
(* record with isHighRisk = true.                                           *)
C16_RevealedIsHighRisk ==
    /\ \A r \in RequestIds, ct \in Cleartexts, p \in Proofs :
           (requestToMessageId[r] # 0 /\ ~encryptedMessages[requestToMessageId[r]].isHighRisk)
               => handleAlertDecryptionOutcome(r, ct, p) = NotHighRisk
    /\ \A m \in Allocated :
           decryptedAlerts[m].isDecrypted => encryptedMessages[m].isHighRisk

(* C17: a request keeps its kind: a request registered by                   *)
(* submitEncryptedMessage (risk evaluation) is never accepted by            *)
(* handleAlertDecryption, and a request registered by                       *)
(* requestAlertDecryption (content reveal) is never accepted by             *)
(* handleRiskAssessment, so a reveal request cannot change isHighRisk and a *)
(* risk request cannot reveal an alert.                                     *)
C17_KindsKeptApart ==
    \A r \in RequestIds, ct \in Cleartexts, p \in Proofs :
        /\ IsRiskRequest(r) => handleAlertDecryptionOutcome(r, ct, p) # OK
        /\ IsRevealRequest(r) => handleRiskAssessmentOutcome(r, ct, p) # OK

(* The request identifiers FHE.requestDecryption has not issued *)
NeverIssued == {r \in RequestIds : r >= counterRequest}

(* C18: a callback whose request identifier was never issued fails with     *)
(* UnknownRequest in either handler, whatever its cleartext and proof (and  *)
(* so changes nothing).                                                     *)
C18_NeverIssuedIsUnknown ==
    \A r \in NeverIssued, ct \in Cleartexts, p \in Proofs :
        /\ handleRiskAssessmentOutcome(r, ct, p) = UnknownRequest
        /\ handleAlertDecryptionOutcome(r, ct, p) = UnknownRequest

(* requests have been issued and resolved, a record is high-risk, and a     *)
(* well-formed callback with a valid proof for the next, never issued       *)
(* identifier is refused by both handlers                                   *)
C18_Witness ==
    /\ counterRequest > 0 /\ counterRequest \in NeverIssued
    /\ \E m \in Allocated : encryptedMessages[m].isHighRisk
    /\ lastCall.op \in {"handleRiskAssessment", "handleAlertDecryption"}
    /\ handleRiskAssessmentOutcome(counterRequest, EncodeBool(TRUE), ValidProof)
           = UnknownRequest
    /\ handleAlertDecryptionOutcome(counterRequest, EncodeString(StringA), ValidProof)
           = UnknownRequest

(* C19: a registered request identifier is never bound again: when the      *)
(* oracle client returns an identifier it has already issued, the           *)
(* registration fails (DuplicateRequest) and the identifier stays bound to  *)
(* the record it was registered for.                                        *)
C19_BindingNeverRepointed ==
    [][\A r \in RequestIds :
           requestToMessageId[r] # 0
               => requestToMessageId'[r] = requestToMessageId[r]]_vars

(* C20: the isHighRisk flag of a record is assigned at most once: after the *)
(* first accepted risk callback for the record, the flag has the same value *)
(* in every later state.                                                    *)
C20_RiskFlagAssignedOnce ==
    [][\A m \in Allocated :
           Evaluated(m)
               => encryptedMessages'[m].isHighRisk = encryptedMessages[m].isHighRisk]_vars

(* C21: the isHighRisk flag of a record is changed by no step other than an *)
(* accepted handleRiskAssessment callback for a request bound to that       *)
(* record: setEncryptedThreshold, submitEncryptedMessage,                   *)
(* requestAlertDecryption and handleAlertDecryption leave it unchanged      *)
(* (getDecryptedAlert is a view).  So a record for which no risk callback   *)
(* has been accepted is not high-risk and its risk request is still         *)
(* registered.                                                              *)
C21_RiskFlagFrame ==
    /\ [](\A m \in Allocated :
              ~Evaluated(m)
                  => /\ ~encryptedMessages[m].isHighRisk
                     /\ \E r \in RequestIds :
                            IsRiskRequest(r) /\ requestToMessageId[r] = m)
    /\ [][\A m \in Allocated :
              encryptedMessages'[m].isHighRisk # encryptedMessages[m].isHighRisk
                  => /\ lastCall'.op = "handleRiskAssessment"
                     /\ requestToMessageId[lastCall'.arg] = m]_vars

(* record 1 has been evaluated and revealed, record 2 was submitted later   *)
(* and its callback has not arrived: it is still not high-risk              *)
C21_Witness ==
    /\ messageCount = 2
    /\ encryptedMessages[1].isHighRisk /\ decryptedAlerts[1].isDecrypted
    /\ ~Evaluated(2) /\ ~encryptedMessages[2].isHighRisk
    /\ \E r \in RequestIds : IsRiskRequest(r) /\ requestToMessageId[r] = 2

(* C22: a successful submitEncryptedMessage is one atomic step: in the      *)
(* state right after it the new record exists with isHighRisk = false, its  *)
(* alert exists with empty content and isDecrypted = false, exactly one     *)
(* request is bound to the new identifier and it is a risk-evaluation       *)
(* request; every record, alert and request that existed before is          *)
(* unchanged.                                                               *)
C22_SubmitAtomic ==
    [][lastCall'.op = "submitEncryptedMessage" =>
           LET newId == lastCall'.arg IN
           /\ newId = messageCount + 1 /\ messageCount' = newId
           /\ encryptedMessages'[newId].id = newId
           /\ ~encryptedMessages'[newId].isHighRisk
           /\ decryptedAlerts'[newId].content = EmptyString
           /\ ~decryptedAlerts'[newId].isDecrypted
           /\ {r \in RequestIds : requestToMessageId'[r] = newId} = {counterRequest}
           /\ decryptionRequests'[counterRequest].selector = "handleRiskAssessment"
           /\ decryptionRequests'[counterRequest].ciphertexts =
                  <<FHEgt(encryptedMessages'[newId].encryptedRiskScore, encryptedThreshold)>>
           /\ counterRequest' = counterRequest + 1
           /\ \A m \in Allocated :
                  /\ encryptedMessages'[m] = encryptedMessages[m]
                  /\ decryptedAlerts'[m] = decryptedAlerts[m]
           /\ \A r \in RequestIds \ {counterRequest} :
                  /\ requestToMessageId'[r] = requestToMessageId[r]
                  /\ decryptionRequests'[r] = decryptionRequests[r]]_vars

(* a second record has just been submitted into a store whose first record  *)
(* is high-risk with a revealed alert                                       *)
C22_Witness ==
    /\ lastCall = Call("submitEncryptedMessage", AnySender, 2)
    /\ encryptedMessages[1].isHighRisk /\ decryptedAlerts[1].isDecrypted
    /\ encryptedMessages[2].id = 2 /\ ~encryptedMessages[2].isHighRisk
    /\ Cardinality({r \in RequestIds : requestToMessageId[r] = 2}) = 1

(* C23: callbacks for different request identifiers commute: for any two   *)
(* pending requests with different identifiers whose valid callbacks the    *)
(* contract accepts, delivering the two callbacks in either order leads to  *)
(* the same records and alerts (the callbacks do not write the request      *)
(* mapping), and when the requests belong to different records neither      *)
(* callback makes the other fail.                                           *)
C23_CallbacksCommute ==
    \A r1 \in Pending, r2 \in Pending, ct1 \in Cleartexts, ct2 \in Cleartexts :
        LET cb1 == CallbackOf(r1, ct1)
            cb2 == CallbackOf(r2, ct2) IN
        (r1 # r2 /\ CallbackOutcome(Store, cb1) = OK /\ CallbackOutcome(Store, cb2) = OK)
            => /\ Deliver(Deliver(Store, cb1), cb2) = Deliver(Deliver(Store, cb2), cb1)
               /\ requestToMessageId[r1] # requestToMessageId[r2]
                      => /\ CallbackOutcome(Deliver(Store, cb1), cb2) = OK
                         /\ CallbackOutcome(Deliver(Store, cb2), cb1) = OK

(* two reveal requests with different identifiers are pending for the same *)
(* record, the valid callback of either is accepted and writes the alert    *)
C23_Witness ==
    \E r1 \in Pending, r2 \in Pending :
        /\ r1 # r2
        /\ requestToMessageId[r1] = requestToMessageId[r2]
        /\ CallbackOutcome(Store, CallbackOf(r1, SignedCleartexts(r1))) = OK
        /\ CallbackOutcome(Store, CallbackOf(r2, SignedCleartexts(r2))) = OK
        /\ Deliver(Store, CallbackOf(r1, SignedCleartexts(r1))) # Store

(* C24: liveness under a fair oracle: every submitted record eventually has *)
(* its risk callback accepted (it leaves Evaluating), and every record for  *)
(* which requestAlertDecryption succeeded eventually has its alert          *)
(* revealed.                                                                *)
C24_FairOracleLiveness ==
    \A m \in MessageIds \ {0} :
        /\ (m \in Allocated) ~> Evaluated(m)
        /\ (RevealRequestsOf(m) # {}) ~> decryptedAlerts[m].isDecrypted

(* The error the specification gives for a record identifier that was      *)
(* never allocated; the contract has no such revert reason.                 *)
NotFound == "NotFound"

(* C25: for a record identifier that was never allocated (0 or greater than *)
(* messageCount), requestAlertDecryption and getDecryptedAlert by the       *)
(* counselor fail with NotFound: neither returns a default record or a      *)
(* default (empty, false) alert.                                            *)
C25_UnallocatedIsNotFound ==
    \A m \in MessageIds \ Allocated :
        /\ requestAlertDecryptionOutcome(counselor, m) = NotFound
        /\ getDecryptedAlert(counselor, m).status = NotFound

(* C26: in every reachable state every registered request is bound to an    *)
(* allocated record: its message identifier is between 1 and messageCount   *)
(* and the record stored there carries that identifier, so a callback that  *)
(* passes the lookup reads and writes an existing record.                   *)
C26_RequestsBoundToAllocated ==
    \A r \in RequestIds :
        requestToMessageId[r] # 0
            => /\ requestToMessageId[r] \in Allocated
               /\ encryptedMessages[requestToMessageId[r]].id = requestToMessageId[r]

(* every request identifier is registered, by both registering functions:   *)
(* risk requests of two records and a content-reveal request of record 2    *)
C26_Witness ==
    /\ messageCount = 2
    /\ \A r \in RequestIds : requestToMessageId[r] # 0
    /\ \E r \in RequestIds : IsRiskRequest(r) /\ requestToMessageId[r] = 1
    /\ \E r \in RequestIds : IsRevealRequest(r) /\ requestToMessageId[r] = 2

(* C27: records are never deleted and their submitted fields are immutable: *)
(* for every allocated identifier, the identifier stays allocated and the   *)
(* content handle, the score handle, the creation time and the id stored at *)
(* submit are the same after every step.                                    *)
C27_RecordsImmutable ==
    [][\A m \in Allocated :
           /\ m <= messageCount'
           /\ encryptedMessages'[m].id = encryptedMessages[m].id
           /\ encryptedMessages'[m].encryptedContent = encryptedMessages[m].encryptedContent
           /\ encryptedMessages'[m].encryptedRiskScore
                  = encryptedMessages[m].encryptedRiskScore
           /\ encryptedMessages'[m].timestamp = encryptedMessages[m].timestamp]_vars

(* record 1 still holds what its submission stored, after its risk callback, *)
(* its reveal and the submission of record 2                                 *)
C27_Witness ==
    /\ messageCount = 2
    /\ encryptedMessages[1].isHighRisk /\ decryptedAlerts[1].isDecrypted
    /\ encryptedMessages[1].id = 1
    /\ encryptedMessages[1].encryptedContent = 0
    /\ encryptedMessages[2].encryptedContent \in ContentHandles \ {0}
    /\ encryptedMessages[1].encryptedRiskScore \in ScoreHandles \ {0}
    /\ encryptedMessages[1].timestamp < encryptedMessages[2].timestamp

(* C28: the counselor is fixed at construction: in every reachable state    *)
(* the counselor is the deployer, and no other address passes               *)
(* onlyCounselor.                                                           *)
C28_CounselorFixed ==
    /\ counselor = Deployer
    /\ \A sender \in Addresses : onlyCounselor(sender) <=> sender = Deployer

(* after the deployer has set the threshold, records were submitted and a   *)
(* reveal was requested, the stranger is still refused                      *)
C28_Witness ==
    /\ thresholdSet /\ messageCount = 2
    /\ lastCall.op = "requestAlertDecryption" /\ lastCall.sender = Deployer
    /\ counselor = Deployer
    /\ requestAlertDecryptionOutcome(Stranger, lastCall.arg) = Unauthorized
    /\ getDecryptedAlert(Stranger, lastCall.arg).status = Unauthorized

====
